---- MODULE Spec2Model ----
(***************************************************************************)
(* Fungible-token ledger of linera-summer-school-2023: one FungibleToken   *)
(* contract instance (a map Owner -> Amount) per chain, the Transfer       *)
(* operation, the Credit message and the cross-chain transport that        *)
(* carries Credit messages between chains.                                 *)
(***************************************************************************)
EXTENDS Integers, Sequences, FiniteSets, Bags, TLC

\* ------------------------------------------------------------------------
\* Bounds of the model
\* ------------------------------------------------------------------------
\* Amount::MAX, scaled down from u128::MAX
MaxAmount == 2

\* most calls (operations, application calls, session calls) clients submit
MaxCalls == 2

\* ------------------------------------------------------------------------
\* Types
\* ------------------------------------------------------------------------
\* the chains of the validator: the sender chain and the receiver chain
ChainId == {"A", "B"}

\* the chain the application is created on (sender_chain in the test)
CreatorChain == "A"

\* the owners: public keys of the two chains
Owner == {"O1", "O2"}

\* Option<Owner>::None
None == "None"

NoChain == "none"

OptionOwner == Owner \cup {None}

Amount == 0..MaxAmount

Account == [chain_id : ChainId, owner : Owner]

\* Message::Credit { amount, owner }
Message == [type : {"Credit"}, amount : Amount, owner : Owner]

\* an entry of ExecutionResult.messages: (destination, message)
Outgoing == [destination : ChainId, message : Message]

\* ExecutionResult::default(): no outgoing message
ExecutionResultDefault == << >>

\* ExecutionResult::with_message(destination, message)
with_message(result, destination, message) ==
    Append(result, [destination |-> destination, message |-> message])

\* MapView::default(): the empty map
EmptyMap == << >>

\* ------------------------------------------------------------------------
\* state.rs: FungibleToken { accounts: MapView<Owner, Amount> }
\* ------------------------------------------------------------------------
\* MapView::insert(&key, value)
insert(map, key, value) ==
    [k \in (DOMAIN map) \cup {key} |-> IF k = key THEN value ELSE map[k]]

\* saturating_add_assign as a wrapping addition
wrapping_add(a, b) ==
    (a + b) % (MaxAmount + 1)

\* Amount::saturating_add_assign
saturating_add(a, b) ==
    IF a + b > MaxAmount THEN MaxAmount ELSE a + b

\* try_sub_assign as a wrapping subtraction that never fails
try_sub_wrapping(a, b) ==
    [ok |-> TRUE, value |-> a - b]

\* try_sub_assign that also refuses to take the whole balance
try_sub_strict(a, b) ==
    IF b >= a /\ b > 0 THEN [ok |-> FALSE, value |-> a] ELSE [ok |-> TRUE, value |-> a - b]

\* Amount::try_sub_assign: [ok, value]
try_sub(a, b) ==
    IF b > a THEN [ok |-> FALSE, value |-> a] ELSE [ok |-> TRUE, value |-> a - b]

\* initialize_accounts that creates the entry but drops the amount
initialize_accounts_zero(map, owner, amount) ==
    insert(map, owner, 0)

initialize_accounts(map, owner, amount) ==
    insert(map, owner, amount)

\* balance with unwrap_or(Amount::MAX) in place of unwrap_or_default()
balance_default_max(map, account) ==
    IF account \in DOMAIN map THEN map[account] ELSE MaxAmount

\* get(account).unwrap_or_default()
balance(map, account) ==
    IF account \in DOMAIN map THEN map[account] ELSE 0

\* credit that overwrites the balance instead of adding to it
credit_overwrite(map, account, amount) ==
    insert(map, account, amount)

credit(map, account, amount) ==
    insert(map, account, saturating_add(balance(map, account), amount))

\* debit with saturating_sub in place of try_sub: never fails
debit_saturating(map, account, amount) ==
    LET sub == try_sub(balance(map, account), amount)
    IN  [ok |-> TRUE,
         accounts |-> insert(map, account, IF sub.ok THEN sub.value ELSE 0)]

\* debit that checks the balance but forgets to persist the reduced value
debit_not_persisted(map, account, amount) ==
    [ok |-> try_sub(balance(map, account), amount).ok, accounts |-> map]

\* Result<(), InsufficientBalanceError> together with the map afterwards
debit(map, account, amount) ==
    LET sub == try_sub(balance(map, account), amount)
    IN  IF ~sub.ok
        THEN [ok |-> FALSE, accounts |-> map]
        ELSE [ok |-> TRUE, accounts |-> insert(map, account, sub.value)]

\* ------------------------------------------------------------------------
\* contract.rs
\* ------------------------------------------------------------------------
\* authentication that accepts any signer, whoever the owner is
check_account_authentication_any_signer(authenticated_signed, owner) ==
    authenticated_signed # None

\* TRUE for Ok(()), FALSE for Err(Error::IncorrectAuthentication)
check_account_authentication(authenticated_signed, owner) ==
    authenticated_signed # None /\ authenticated_signed = owner

\* finish_transfer_to_account that applies the local credit twice
finish_transfer_credit_twice(map, current_chain, amount, account) ==
    IF account.chain_id = current_chain
    THEN [accounts |-> credit(credit(map, account.owner, amount),
                              account.owner, amount),
          messages |-> ExecutionResultDefault]
    ELSE [accounts |-> map,
          messages |-> with_message(ExecutionResultDefault, account.chain_id,
                          [type |-> "Credit", amount |-> amount,
                           owner |-> account.owner])]

\* finish_transfer_to_account without the local shortcut: always a message
finish_transfer_always_message(map, current_chain, amount, account) ==
    [accounts |-> map,
     messages |-> with_message(ExecutionResultDefault, account.chain_id,
                     [type |-> "Credit", amount |-> amount,
                      owner |-> account.owner])]

\* finish_transfer_to_account that credits locally on both branches
finish_transfer_credit_and_message(map, current_chain, amount, account) ==
    [accounts |-> credit(map, account.owner, amount),
     messages |-> IF account.chain_id = current_chain
                  THEN ExecutionResultDefault
                  ELSE with_message(ExecutionResultDefault, account.chain_id,
                          [type |-> "Credit", amount |-> amount,
                           owner |-> account.owner])]

\* current_chain is system_api::current_chain_id()
finish_transfer_to_account(map, current_chain, amount, account) ==
    IF account.chain_id = current_chain
    THEN [accounts |-> credit(map, account.owner, amount),
          messages |-> ExecutionResultDefault]
    ELSE [accounts |-> map,
          messages |-> with_message(ExecutionResultDefault, account.chain_id,
                          [type |-> "Credit", amount |-> amount,
                           owner |-> account.owner])]

\* Contract::initialize
initialize(map, authenticated_signer, argument) ==
    [result   |-> "Ok",
     accounts |-> IF authenticated_signer # None
                  THEN initialize_accounts(map, authenticated_signer, argument)
                  ELSE map,
     messages |-> ExecutionResultDefault]

\* execute_operation that finishes the transfer before it debits
execute_operation_credit_first(map, current_chain, authenticated_signer, owner, amount, target_account) ==
    IF ~check_account_authentication(authenticated_signer, owner)
    THEN [result |-> "IncorrectAuthentication", accounts |-> map,
          messages |-> ExecutionResultDefault]
    ELSE LET f == finish_transfer_to_account(map, current_chain, amount,
                                             target_account)
             d == debit(f.accounts, owner, amount)
         IN  IF ~d.ok
             THEN [result |-> "InsufficientBalance", accounts |-> map,
                   messages |-> ExecutionResultDefault]
             ELSE [result |-> "Ok", accounts |-> d.accounts,
                   messages |-> f.messages]

\* execute_operation that debits before it checks the authentication
execute_operation_debit_first(map, current_chain, authenticated_signer, owner, amount, target_account) ==
    LET d == debit(map, owner, amount)
    IN  IF ~d.ok
        THEN [result |-> "InsufficientBalance", accounts |-> d.accounts,
              messages |-> ExecutionResultDefault]
        ELSE IF ~check_account_authentication(authenticated_signer, owner)
             THEN [result |-> "IncorrectAuthentication", accounts |-> d.accounts,
                   messages |-> ExecutionResultDefault]
             ELSE LET f == finish_transfer_to_account(d.accounts, current_chain,
                                                      amount, target_account)
                  IN  [result |-> "Ok", accounts |-> f.accounts,
                       messages |-> f.messages]

\* Contract::execute_operation on Operation::Transfer
execute_operation(map, current_chain, authenticated_signer, owner, amount, target_account) ==
    IF ~check_account_authentication(authenticated_signer, owner)
    THEN [result |-> "IncorrectAuthentication", accounts |-> map,
          messages |-> ExecutionResultDefault]
    ELSE LET d == debit(map, owner, amount)
         IN  IF ~d.ok
             THEN [result |-> "InsufficientBalance", accounts |-> d.accounts,
                   messages |-> ExecutionResultDefault]
             ELSE LET f == finish_transfer_to_account(d.accounts, current_chain,
                                                      amount, target_account)
                  IN  [result |-> "Ok", accounts |-> f.accounts,
                       messages |-> f.messages]

\* execute_message that credits only an owner who has no entry yet
execute_message_credit_if_absent(map, message) ==
    [result   |-> "Ok",
     accounts |-> IF message.owner \in DOMAIN map THEN map
                  ELSE credit(map, message.owner, message.amount),
     messages |-> ExecutionResultDefault]

\* execute_message that raises the balance to amount at most once: handling
\* the same Credit again has no effect
execute_message_idempotent(map, message) ==
    [result   |-> "Ok",
     accounts |-> insert(map, message.owner,
                     IF balance(map, message.owner) > message.amount
                     THEN balance(map, message.owner) ELSE message.amount),
     messages |-> ExecutionResultDefault]

\* execute_message that credits and sends the Credit on to the creator chain
execute_message_forward(map, message) ==
    [result   |-> "Ok",
     accounts |-> credit(map, message.owner, message.amount),
     messages |-> with_message(ExecutionResultDefault, CreatorChain, message)]

\* execute_message that acknowledges the message without crediting
execute_message_no_credit(map, message) ==
    [result |-> "Ok", accounts |-> map, messages |-> ExecutionResultDefault]

\* Contract::execute_message on Message::Credit
execute_message(map, message) ==
    [result   |-> "Ok",
     accounts |-> credit(map, message.owner, message.amount),
     messages |-> ExecutionResultDefault]

\* Contract::handle_application_call
handle_application_call(map) ==
    [result |-> "Ok", accounts |-> map, messages |-> ExecutionResultDefault]

\* handle_session_call answering like handle_application_call
handle_session_call_default(map) ==
    [result |-> "Ok", accounts |-> map, messages |-> ExecutionResultDefault]

\* Contract::handle_session_call
handle_session_call(map) ==
    [result |-> "SessionsNotSupported", accounts |-> map,
     messages |-> ExecutionResultDefault]

\* ------------------------------------------------------------------------
\* State
\* ------------------------------------------------------------------------
VARIABLES
    accounts,   \* accounts[c]: the FungibleToken.accounts map of chain c
    pending,    \* the bag of outgoing messages not yet handled
    creation,   \* the create_application call: [done, chain, signer, argument]
    call,       \* the call a chain is about to execute, NoCall when idle
    last,       \* what the last executed call returned (see Returned)
    scenario,   \* how far the run follows test_cross_chain_transfer
    calls       \* number of calls clients have submitted since creation

vars == <<accounts, pending, creation, call, last, scenario, calls>>

NoAccount == [chain_id |-> NoChain, owner |-> None]

\* kind, the executing chain, context.authenticated_signer and the arguments
NoCall ==
    [kind |-> "none", chain |-> NoChain, signer |-> None, owner |-> None,
     amount |-> 0, target_account |-> NoAccount]

NoReturn ==
    [kind |-> "none", result |-> "none", messages |-> 0, funded |-> TRUE,
     to_self |-> FALSE, value |-> 0]

NoScenario ==
    [phase |-> "other", amount |-> 0, target_account |-> NoAccount]

\* what is kept of a finished call: its kind, the Result variant, the number
\* of messages in its ExecutionResult and, for a Transfer, whether the amount
\* was within the owner's balance when the call began and whether the target
\* was the owner's own account on the executing chain
Returned(r) ==
    [kind |-> call.kind, result |-> r.result, messages |-> Len(r.messages),
     funded |-> (call.kind = "execute_operation"
                    => call.amount <= balance(accounts[call.chain], call.owner)),
     to_self |-> /\ call.kind = "execute_operation"
                 /\ call.target_account =
                        [chain_id |-> call.chain, owner |-> call.owner],
     value |-> 0]

\* the transport takes over the messages of an ExecutionResult
RECURSIVE Send(_, _)
Send(p, msgs) ==
    IF msgs = << >> THEN p
    ELSE Send(p (+) SetToBag({Head(msgs)}), Tail(msgs))

\* the transport hands over one copy of m
Take(p, m) ==
    p (-) SetToBag({m})

\* the outgoing message a pending execute_message call handles
Delivered ==
    [destination |-> call.chain,
     message |-> [type |-> "Credit", amount |-> call.amount,
                  owner |-> call.owner]]

Init ==
    /\ accounts = [c \in ChainId |-> EmptyMap]
    /\ pending = EmptyBag
    /\ creation = [done |-> FALSE, chain |-> NoChain, signer |-> None, argument |-> 0]
    /\ call = NoCall
    /\ last = NoReturn
    /\ scenario = [NoScenario EXCEPT !.phase = "fresh"]
    /\ calls = 0

\* --- a client, another application or the transport hands a call to a chain

\* create_application on the sender chain with the initialization argument
CreateApplication(signer, argument) ==
    /\ call = NoCall
    /\ ~creation.done
    /\ call' = [NoCall EXCEPT !.kind = "initialize", !.chain = CreatorChain,
                    !.signer = signer, !.amount = argument]
    /\ UNCHANGED <<accounts, pending, creation, last, scenario, calls>>

\* a block of chain c with one Operation::Transfer
SubmitOperation(c, signer, owner, amount, target_account) ==
    /\ call = NoCall
    /\ creation.done
    /\ calls < MaxCalls
    /\ calls' = calls + 1
    /\ call' = [kind |-> "execute_operation", chain |-> c, signer |-> signer,
                owner |-> owner, amount |-> amount,
                target_account |-> target_account]
    /\ UNCHANGED <<accounts, pending, creation, last, scenario>>

\* the transport delivers outgoing message m to its destination chain
DeliverMessage(m, signer) ==
    /\ call = NoCall
    /\ BagIn(m, pending)
    /\ call' = [NoCall EXCEPT !.kind = "execute_message",
                    !.chain = m.destination, !.signer = signer,
                    !.owner = m.message.owner, !.amount = m.message.amount]
    /\ UNCHANGED <<accounts, pending, creation, last, scenario, calls>>

\* another application calls this one on chain c; ApplicationCall = ()
CallApplication(c) ==
    /\ call = NoCall
    /\ creation.done
    /\ calls < MaxCalls
    /\ calls' = calls + 1
    /\ call' = [NoCall EXCEPT !.kind = "handle_application_call", !.chain = c]
    /\ UNCHANGED <<accounts, pending, creation, last, scenario>>

\* another application calls a session on chain c; SessionCall = ()
CallSession(c) ==
    /\ call = NoCall
    /\ creation.done
    /\ calls < MaxCalls
    /\ calls' = calls + 1
    /\ call' = [NoCall EXCEPT !.kind = "handle_session_call", !.chain = c]
    /\ UNCHANGED <<accounts, pending, creation, last, scenario>>

\* --- the chain executes the call

Initialize ==
    /\ call.kind = "initialize"
    /\ LET r == initialize(accounts[call.chain], call.signer, call.amount)
       IN  /\ accounts' = [accounts EXCEPT ![call.chain] = r.accounts]
           /\ pending' = Send(pending, r.messages)
           /\ last' = Returned(r)
    /\ creation' = [done |-> TRUE, chain |-> call.chain, signer |-> call.signer,
                    argument |-> call.amount]
    /\ scenario' = IF call.signer # None
                   THEN [NoScenario EXCEPT !.phase = "initialized"]
                   ELSE NoScenario
    /\ call' = NoCall
    /\ UNCHANGED calls

\* execute_operation that credits a remote target in the ledger of the target
\* chain instead of leaving the Credit to the transport
ExecuteOperationSharedLedger ==
    /\ call.kind = "execute_operation"
    /\ LET r == execute_operation(accounts[call.chain], call.chain, call.signer,
                                  call.owner, call.amount, call.target_account)
           own == [accounts EXCEPT ![call.chain] = r.accounts]
       IN  /\ accounts' =
                IF r.messages = << >> THEN own
                ELSE LET m == Head(r.messages)
                     IN  [own EXCEPT ![m.destination] =
                            credit(own[m.destination], m.message.owner,
                                   m.message.amount)]
           /\ pending' = pending
           /\ last' = Returned(r)
    /\ scenario' = NoScenario
    /\ call' = NoCall
    /\ UNCHANGED <<creation, calls>>

ExecuteOperation ==
    /\ call.kind = "execute_operation"
    /\ LET r == execute_operation(accounts[call.chain], call.chain, call.signer,
                                  call.owner, call.amount, call.target_account)
       IN  /\ accounts' = [accounts EXCEPT ![call.chain] = r.accounts]
           /\ pending' = Send(pending, r.messages)
           /\ last' = Returned(r)
           /\ scenario' =
                IF /\ scenario.phase = "initialized"
                   /\ call.chain = creation.chain
                   /\ call.owner = creation.signer
                   /\ call.target_account.chain_id # call.chain
                   /\ r.result = "Ok"
                THEN [phase |-> "transferred", amount |-> call.amount,
                      target_account |-> call.target_account]
                ELSE NoScenario
    /\ call' = NoCall
    /\ UNCHANGED <<creation, calls>>

ExecuteMessage ==
    /\ call.kind = "execute_message"
    /\ LET r == execute_message(accounts[call.chain], Delivered.message)
       IN  /\ accounts' = [accounts EXCEPT ![call.chain] = r.accounts]
           /\ pending' = Send(Take(pending, Delivered), r.messages)
           /\ last' = Returned(r)
    /\ scenario' = IF scenario.phase = "transferred"
                   THEN [scenario EXCEPT !.phase = "delivered"]
                   ELSE IF scenario.phase = "redelivering"
                        THEN [scenario EXCEPT !.phase = "redelivered"]
                        ELSE NoScenario
    /\ call' = NoCall
    /\ UNCHANGED <<creation, calls>>

HandleApplicationCall ==
    /\ call.kind = "handle_application_call"
    /\ LET r == handle_application_call(accounts[call.chain])
       IN  /\ accounts' = [accounts EXCEPT ![call.chain] = r.accounts]
           /\ pending' = Send(pending, r.messages)
           /\ last' = Returned(r)
    /\ scenario' = NoScenario
    /\ call' = NoCall
    /\ UNCHANGED <<creation, calls>>

HandleSessionCall ==
    /\ call.kind = "handle_session_call"
    /\ LET r == handle_session_call(accounts[call.chain])
       IN  /\ accounts' = [accounts EXCEPT ![call.chain] = r.accounts]
           /\ pending' = Send(pending, r.messages)
           /\ last' = Returned(r)
    /\ scenario' = NoScenario
    /\ call' = NoCall
    /\ UNCHANGED <<creation, calls>>

Next ==
    \/ \E signer \in OptionOwner, argument \in Amount :
          CreateApplication(signer, argument)
    \/ \E c \in ChainId, signer \in OptionOwner, owner \in Owner,
          amount \in Amount, target_account \in Account :
          SubmitOperation(c, signer, owner, amount, target_account)
    \/ \E m \in Outgoing, signer \in OptionOwner : DeliverMessage(m, signer)
    \/ \E c \in ChainId : CallApplication(c)
    \/ \E c \in ChainId : CallSession(c)
    \/ Initialize
    \/ ExecuteOperation
    \/ ExecuteMessage
    \/ HandleApplicationCall
    \/ HandleSessionCall

Spec == Init /\ [][Next]_vars

\* --- a transport that is not exactly-once

\* right after the Credit of test_cross_chain_transfer was handled, the
\* transport holds and delivers a second copy of it
RedeliverMessage(signer) ==
    /\ call = NoCall
    /\ scenario.phase = "delivered"
    /\ LET m == [destination |-> scenario.target_account.chain_id,
                 message |-> [type |-> "Credit", amount |-> scenario.amount,
                              owner |-> scenario.target_account.owner]]
       IN  /\ pending' = pending (+) SetToBag({m})
           /\ call' = [NoCall EXCEPT !.kind = "execute_message",
                           !.chain = m.destination, !.signer = signer,
                           !.owner = m.message.owner,
                           !.amount = m.message.amount]
    /\ scenario' = [scenario EXCEPT !.phase = "redelivering"]
    /\ UNCHANGED <<accounts, creation, last, calls>>

NextRedelivery ==
    \/ Next
    \/ \E signer \in OptionOwner : RedeliverMessage(signer)

SpecRedelivery == Init /\ [][NextRedelivery]_vars

\* Every chain executes the call handed to it, and the transport delivers a
\* message it holds: add_block and handle_received_messages of
\* test_cross_chain_transfer run to completion.
Fairness ==
    /\ WF_vars(Initialize)
    /\ WF_vars(ExecuteOperation)
    /\ WF_vars(ExecuteMessage)
    /\ WF_vars(HandleApplicationCall)
    /\ WF_vars(HandleSessionCall)
    /\ WF_vars(\E m \in Outgoing, signer \in OptionOwner : DeliverMessage(m, signer))

SpecFair == Init /\ [][Next]_vars /\ Fairness

\* ------------------------------------------------------------------------
\* The ledger on its own: FungibleToken's methods applied to any ledger
\* ------------------------------------------------------------------------
\* every value of MapView<Owner, Amount>
LedgerStates ==
    UNION {[D -> Amount] : D \in SUBSET Owner}

InitLedger ==
    /\ accounts \in [ChainId -> LedgerStates]
    /\ pending = EmptyBag
    /\ creation = [done |-> FALSE, chain |-> NoChain, signer |-> None, argument |-> 0]
    /\ call = NoCall
    /\ last = NoReturn
    /\ scenario = NoScenario
    /\ calls = 0

\* FungibleToken::credit(account, amount) on the ledger of chain c; value is
\* the balance credit reads before it adds
LedgerCredit(c, account, amount) ==
    /\ call' = [NoCall EXCEPT !.kind = "credit", !.chain = c,
                    !.owner = account, !.amount = amount]
    /\ accounts' = [accounts EXCEPT ![c] = credit(accounts[c], account, amount)]
    /\ last' = [NoReturn EXCEPT !.kind = "credit", !.result = "Ok",
                    !.value = balance(accounts[c], account)]
    /\ UNCHANGED <<pending, creation, scenario, calls>>

\* FungibleToken::balance(&account) on the ledger of chain c; value is the
\* Amount it returns
LedgerBalance(c, account) ==
    /\ call' = [NoCall EXCEPT !.kind = "balance", !.chain = c,
                    !.owner = account]
    /\ last' = [NoReturn EXCEPT !.kind = "balance", !.result = "Ok",
                    !.value = balance(accounts[c], account)]
    /\ UNCHANGED <<accounts, pending, creation, scenario, calls>>

NextLedger ==
    \/ \E c \in ChainId, account \in Owner, amount \in Amount :
          LedgerCredit(c, account, amount)
    \/ \E c \in ChainId, account \in Owner : LedgerBalance(c, account)

SpecLedger == InitLedger /\ [][NextLedger]_vars

\* ------------------------------------------------------------------------
\* Type invariant
\* ------------------------------------------------------------------------
TypeOK ==
    /\ \A c \in ChainId :
          /\ DOMAIN accounts[c] \subseteq Owner
          /\ \A o \in DOMAIN accounts[c] : accounts[c][o] \in Amount
    /\ IsABag(pending) /\ BagToSet(pending) \subseteq Outgoing
    /\ BagCardinality(pending) <= calls
    /\ calls \in 0..MaxCalls
    /\ scenario.phase \in
          {"fresh", "initialized", "transferred", "delivered", "redelivering",
           "redelivered", "other"}
    /\ last.result \in {"none", "Ok", "IncorrectAuthentication",
                         "InsufficientBalance", "SessionsNotSupported"}

\* ------------------------------------------------------------------------
\* Quantities the properties speak of
\* ------------------------------------------------------------------------
RECURSIVE Sum(_, _)
Sum(f, S) ==
    IF S = {} THEN 0
    ELSE LET x == CHOOSE y \in S : TRUE
         IN  f[x] + Sum(f, S \ {x})

\* sum of the balances of one ledger
LedgerTotal(map) ==
    Sum(map, DOMAIN map)

\* sum of all balances over all owners on all chains
AllBalances ==
    Sum([c \in ChainId |-> LedgerTotal(accounts[c])], ChainId)

\* sum of the amounts of the emitted Credit messages not yet handled
InFlight ==
    LET ms == BagToSet(pending)
    IN  Sum([m \in ms |-> pending[m] * m.message.amount], ms)

\* the supply assigned at creation
Supply ==
    IF creation.done /\ creation.signer # None THEN creation.argument ELSE 0

\* balance of owner o on chain c before and after a step
Bal(c, o) ==
    balance(accounts[c], o)

BalAfter(c, o) ==
    balance(accounts'[c], o)

\* the step is the execution of a correctly authenticated Transfer
AuthenticatedTransfer ==
    /\ call.kind = "execute_operation"
    /\ call.signer = call.owner

\* the Credit message a remote Transfer must emit
CreditFor(target_account, amount) ==
    [destination |-> target_account.chain_id,
     message |-> [type |-> "Credit", amount |-> amount,
                  owner |-> target_account.owner]]

\* ------------------------------------------------------------------------
\* C1. Value conservation: in every reachable state the sum of all balances
\* over all owners on all chains, plus the sum of the amounts of all emitted
\* but not yet handled Credit messages, equals the supply S assigned by the
\* single initialization (zero while nothing has been assigned).
\* ------------------------------------------------------------------------
C1_ValueConservation ==
    AllBalances + InFlight = Supply

\* part of the supply has arrived on the receiver chain and part of it is
\* still in flight
C1_Witness ==
    /\ InFlight > 0
    /\ LedgerTotal(accounts["B"]) > 0
    /\ AllBalances + InFlight = Supply

\* ------------------------------------------------------------------------
\* C2. Authentication gate: executing a Transfer whose authenticated signer
\* is absent or different from owner returns IncorrectAuthentication, leaves
\* every balance on the executing chain unchanged and emits no message,
\* whatever the amount and the target.
\* ------------------------------------------------------------------------
C2_AuthenticationGate ==
    [][ (call.kind = "execute_operation" /\ call.signer # call.owner)
        => /\ last'.result = "IncorrectAuthentication"
           /\ \A o \in Owner : BalAfter(call.chain, o) = Bal(call.chain, o)
           /\ last'.messages = 0
           /\ pending' = pending ]_vars

\* a Transfer was refused for its signer while the ledger holds value
C2_Witness ==
    /\ last.kind = "execute_operation"
    /\ last.result = "IncorrectAuthentication"
    /\ AllBalances > 0

\* ------------------------------------------------------------------------
\* C3. Debit atomicity: executing a correctly authenticated Transfer whose
\* amount exceeds the owner's balance (zero for an absent owner) returns
\* InsufficientBalance, leaves the ledger of the executing chain exactly as
\* it was, and emits no message.
\* ------------------------------------------------------------------------
C3_DebitAtomicity ==
    [][ (AuthenticatedTransfer /\ call.amount > Bal(call.chain, call.owner))
        => /\ last'.result = "InsufficientBalance"
           /\ accounts'[call.chain] = accounts[call.chain]
           /\ last'.messages = 0
           /\ pending' = pending ]_vars

\* a Transfer was refused for its amount
C3_Witness ==
    /\ last.kind = "execute_operation"
    /\ last.result = "InsufficientBalance"

\* ------------------------------------------------------------------------
\* C4. Local-destination shortcut: executing a correctly authenticated
\* Transfer with amount <= balance(owner) whose target chain is the executing
\* chain succeeds, takes amount from owner and gives amount to
\* target_account.owner on that chain in the same step, changes no other
\* balance, and emits no message.
\* ------------------------------------------------------------------------
C4_LocalShortcut ==
    [][ ( /\ AuthenticatedTransfer
          /\ call.amount <= Bal(call.chain, call.owner)
          /\ call.target_account.chain_id = call.chain )
        => /\ last'.result = "Ok"
           /\ \A o \in Owner :
                BalAfter(call.chain, o) =
                    Bal(call.chain, o)
                    - (IF o = call.owner THEN call.amount ELSE 0)
                    + (IF o = call.target_account.owner THEN call.amount ELSE 0)
           /\ \A c \in ChainId \ {call.chain} : accounts'[c] = accounts[c]
           /\ last'.messages = 0
           /\ pending' = pending ]_vars

\* a Transfer succeeded without a message and both owners hold value on one
\* chain
C4_Witness ==
    /\ last.kind = "execute_operation"
    /\ last.result = "Ok"
    /\ last.messages = 0
    /\ \E c \in ChainId : \A o \in Owner : Bal(c, o) > 0

\* ------------------------------------------------------------------------
\* C5 as claimed. Remote transfer: a correctly authenticated Transfer with
\* amount <= balance(owner) to another chain emits exactly one message,
\* Credit{owner: target_account.owner, amount} addressed to the target chain;
\* on the executing chain only the sender's balance changes (reduced by
\* amount) and the balance of target_account.owner is unchanged.
\* ------------------------------------------------------------------------
C5_RemoteTransferAsClaimed ==
    [][ ( /\ AuthenticatedTransfer
          /\ call.amount <= Bal(call.chain, call.owner)
          /\ call.target_account.chain_id # call.chain )
        => /\ last'.result = "Ok"
           /\ last'.messages = 1
           /\ pending' = pending (+)
                  SetToBag({CreditFor(call.target_account, call.amount)})
           /\ BalAfter(call.chain, call.owner) =
                  Bal(call.chain, call.owner) - call.amount
           /\ \A o \in Owner \ {call.owner} :
                  BalAfter(call.chain, o) = Bal(call.chain, o)
           /\ BalAfter(call.chain, call.target_account.owner) =
                  Bal(call.chain, call.target_account.owner) ]_vars

\* ------------------------------------------------------------------------
\* C5. Remote transfer: a correctly authenticated Transfer with
\* amount <= balance(owner) to another chain emits exactly one message,
\* Credit{owner: target_account.owner, amount} addressed to the target chain,
\* and performs no local credit: on the executing chain the sender's balance
\* is reduced by amount and no other owner's balance changes, so the balance
\* of target_account.owner there is unchanged unless that owner is the sender.
\* ------------------------------------------------------------------------
C5_RemoteTransfer ==
    [][ ( /\ AuthenticatedTransfer
          /\ call.amount <= Bal(call.chain, call.owner)
          /\ call.target_account.chain_id # call.chain )
        => /\ last'.result = "Ok"
           /\ last'.messages = 1
           /\ pending' = pending (+)
                  SetToBag({CreditFor(call.target_account, call.amount)})
           /\ BalAfter(call.chain, call.owner) =
                  Bal(call.chain, call.owner) - call.amount
           /\ \A o \in Owner \ {call.owner} :
                  BalAfter(call.chain, o) = Bal(call.chain, o)
           /\ \A c \in ChainId \ {call.chain} : accounts'[c] = accounts[c] ]_vars

\* a Transfer emitted its message, which carries value and is still pending
C5_Witness ==
    /\ last.kind = "execute_operation"
    /\ last.result = "Ok"
    /\ last.messages = 1
    /\ InFlight > 0

\* ------------------------------------------------------------------------
\* C6. Cross-chain transfer scenario: chain A initializes O1 with S and O1
\* then transfers a <= S to (chain B, O2). Before the Credit message is
\* handled, balance_A(O1) = S - a and balance_B(O2) = 0; once it is handled on
\* chain B, balance_B(O2) = a and balance_A(O1) is still S - a.
\* ------------------------------------------------------------------------
C6_CrossChainScenario ==
    /\ scenario.phase = "transferred"
         => /\ Bal(creation.chain, creation.signer)
                  = creation.argument - scenario.amount
            /\ Bal(scenario.target_account.chain_id,
                   scenario.target_account.owner) = 0
    /\ scenario.phase = "delivered"
         => /\ Bal(scenario.target_account.chain_id,
                   scenario.target_account.owner) = scenario.amount
            /\ Bal(creation.chain, creation.signer)
                  = creation.argument - scenario.amount

\* the scenario ran to its end with a positive amount
C6_Witness ==
    /\ scenario.phase = "delivered"
    /\ scenario.amount > 0
    /\ scenario.amount < creation.argument

\* ------------------------------------------------------------------------
\* C7. Message credit has no failure path: handling a delivered
\* Credit{owner, amount} on any chain, in any reachable ledger state and with
\* any authenticated signer, returns Ok, adds amount to owner's balance on
\* that chain (clamped at the maximum Amount), changes no other balance, and
\* emits no message.
\* ------------------------------------------------------------------------
C7_MessageCredit ==
    [][ call.kind = "execute_message"
        => /\ last'.result = "Ok"
           /\ BalAfter(call.chain, call.owner) =
                  (IF Bal(call.chain, call.owner) + call.amount > MaxAmount
                   THEN MaxAmount
                   ELSE Bal(call.chain, call.owner) + call.amount)
           /\ \A o \in Owner \ {call.owner} :
                  BalAfter(call.chain, o) = Bal(call.chain, o)
           /\ \A c \in ChainId \ {call.chain} : accounts'[c] = accounts[c]
           /\ last'.messages = 0
           /\ pending' = pending (-) SetToBag({Delivered}) ]_vars

\* a Credit was handled and an owner of the receiver chain holds more than
\* one unit
C7_Witness ==
    /\ last.kind = "execute_message"
    /\ last.result = "Ok"
    /\ \E o \in Owner : Bal("B", o) > 1

\* ------------------------------------------------------------------------
\* C8 as claimed. Unsupported interaction kinds, a generic application call
\* and a session call, are always rejected with an error and never return
\* success.
\* ------------------------------------------------------------------------
C8_UnsupportedRejectedAsClaimed ==
    last.kind \in {"handle_application_call", "handle_session_call"}
        => last.result = "SessionsNotSupported"

\* ------------------------------------------------------------------------
\* C8. A session call is always rejected with the fixed error
\* SessionsNotSupported; a generic application call is accepted: it returns
\* success with the default (empty) result. Neither changes a balance or
\* emits a message.
\* ------------------------------------------------------------------------
C8_SessionRejectedApplicationAccepted ==
    [][ /\ call.kind = "handle_session_call"
            => /\ last'.result = "SessionsNotSupported"
               /\ last'.messages = 0
               /\ accounts' = accounts
               /\ pending' = pending
        /\ call.kind = "handle_application_call"
            => /\ last'.result = "Ok"
               /\ last'.messages = 0
               /\ accounts' = accounts
               /\ pending' = pending ]_vars

\* a session call was rejected
C8_Witness ==
    /\ last.kind = "handle_session_call"
    /\ last.result = "SessionsNotSupported"

\* ------------------------------------------------------------------------
\* C9. Balance range: in every reachable state every stored balance of every
\* owner on every chain is at least 0 and at most the maximum Amount.
\* ------------------------------------------------------------------------
C9_BalanceRange ==
    \A c \in ChainId : \A o \in DOMAIN accounts[c] :
        accounts[c][o] >= 0 /\ accounts[c][o] <= MaxAmount

\* the whole maximal supply moved: the sender is down to 0 and a receiver on
\* the other chain holds the maximum Amount
C9_Witness ==
    /\ \E o \in DOMAIN accounts["B"] : accounts["B"][o] = MaxAmount
    /\ \E o \in DOMAIN accounts[CreatorChain] : accounts[CreatorChain][o] = 0

\* ------------------------------------------------------------------------
\* C10. Initialization: instantiating the contract with amount S returns Ok
\* and emits no message; with an authenticated signer, that signer's balance
\* becomes S and every other balance is zero; without one, the ledger remains
\* empty.
\* ------------------------------------------------------------------------
C10_Initialization ==
    [][ call.kind = "initialize"
        => /\ last'.result = "Ok"
           /\ last'.messages = 0
           /\ pending' = pending
           /\ call.signer # None
                => \A c \in ChainId, o \in Owner :
                      BalAfter(c, o) =
                          (IF c = call.chain /\ o = call.signer
                           THEN call.amount ELSE 0)
           /\ call.signer = None
                => \A c \in ChainId : accounts'[c] = EmptyMap ]_vars

\* the contract was initialized for a signer with a positive amount
C10_Witness ==
    /\ last.kind = "initialize"
    /\ last.result = "Ok"
    /\ creation.signer # None
    /\ Bal(creation.chain, creation.signer) = creation.argument
    /\ creation.argument > 0

\* ------------------------------------------------------------------------
\* C11. Saturating credit: for every stored balance b and every amount a in
\* 0..MAX, credit(owner, a) succeeds and leaves owner's balance equal to
\* min(MAX, b + a), which is never smaller than b.
\* ------------------------------------------------------------------------
C11_SaturatingCredit ==
    [][ call'.kind = "credit"
        => LET b == IF call'.owner \in DOMAIN accounts[call'.chain]
                    THEN accounts[call'.chain][call'.owner] ELSE 0
               sum == b + call'.amount
           IN  /\ last'.result = "Ok"
               /\ call'.owner \in DOMAIN accounts'[call'.chain]
               /\ accounts'[call'.chain][call'.owner] =
                      (IF sum > MaxAmount THEN MaxAmount ELSE sum)
               /\ accounts'[call'.chain][call'.owner] >= b ]_vars

\* a credit that clamped: the balance read plus the amount is above MAX
C11_Witness ==
    /\ call.kind = "credit"
    /\ last.result = "Ok"
    /\ last.value + call.amount > MaxAmount
    /\ Bal(call.chain, call.owner) = MaxAmount

\* ------------------------------------------------------------------------
\* C13. Read has no effect: balance(owner) returns the stored value, or zero
\* when the owner has no entry, and leaves the ledger unchanged (it creates
\* no entry), so a read repeated with no mutation in between returns the
\* same value.
\* ------------------------------------------------------------------------
C13_ReadHasNoEffect ==
    [][ call'.kind = "balance"
        => /\ last'.result = "Ok"
           /\ last'.value =
                  (IF call'.owner \in DOMAIN accounts[call'.chain]
                   THEN accounts[call'.chain][call'.owner] ELSE 0)
           /\ accounts' = accounts
           /\ last'.value =
                  (IF call'.owner \in DOMAIN accounts'[call'.chain]
                   THEN accounts'[call'.chain][call'.owner] ELSE 0) ]_vars

\* an owner without entry was read as zero and still has no entry, while the
\* other owner of that chain holds a positive balance
C13_Witness ==
    /\ call.kind = "balance"
    /\ call.owner \notin DOMAIN accounts[call.chain]
    /\ last.value = 0
    /\ \E o \in DOMAIN accounts[call.chain] : accounts[call.chain][o] > 0

\* ------------------------------------------------------------------------
\* C12. Eventual credit: when every chain executes its calls and the
\* transport delivers each message it holds exactly once, every Credit that
\* was emitted is eventually handed to its destination and handled with Ok,
\* and once no more transfers are submitted the transport is eventually
\* empty for good.
\* ------------------------------------------------------------------------
C12_EventualCredit ==
    /\ \A m \in Outgoing :
          BagIn(m, pending) ~> (call.kind = "execute_message" /\ Delivered = m)
    /\ (call.kind = "execute_message")
          ~> (last.kind = "execute_message" /\ last.result = "Ok")
    /\ <>[](pending = EmptyBag)

\* all calls are used up, the last step handled a Credit, nothing is in
\* flight and the credited chain holds a positive balance
C12_Witness ==
    /\ calls = MaxCalls
    /\ last.kind = "execute_message"
    /\ last.result = "Ok"
    /\ call = NoCall
    /\ pending = EmptyBag
    /\ \E c \in ChainId \ {CreatorChain}, o \in Owner : Bal(c, o) > 0

\* ------------------------------------------------------------------------
\* C14. Authentication is evaluated before the debit: a Transfer whose signer
\* is absent or differs from owner and whose amount exceeds the owner's
\* balance fails with IncorrectAuthentication, not InsufficientBalance, and
\* changes no ledger and emits no message.
\* ------------------------------------------------------------------------
C14_AuthenticationBeforeDebit ==
    [][ ( /\ call.kind = "execute_operation"
          /\ call.signer # call.owner
          /\ call.amount > (IF call.owner \in DOMAIN accounts[call.chain]
                            THEN accounts[call.chain][call.owner] ELSE 0) )
        => /\ last'.kind = "execute_operation"
           /\ last'.result = "IncorrectAuthentication"
           /\ accounts' = accounts
           /\ pending' = pending ]_vars

\* after the creation, an unauthenticated overdraft was refused for its
\* authentication
C14_Witness ==
    /\ creation.done
    /\ Supply > 0
    /\ last.kind = "execute_operation"
    /\ last.result = "IncorrectAuthentication"
    /\ ~last.funded

\* ------------------------------------------------------------------------
\* C15. A Transfer succeeds if and only if the signer equals owner and
\* amount <= balance(owner); on success the owner's balance is first reduced
\* by exactly amount, and the credit or the message is applied to the ledger
\* so reduced.
\* ------------------------------------------------------------------------
C15_TransferPrecondition ==
    [][ call.kind = "execute_operation"
        => LET map == accounts[call.chain]
               b == IF call.owner \in DOMAIN map THEN map[call.owner] ELSE 0
               debited == [o \in DOMAIN map \cup {call.owner} |->
                              IF o = call.owner THEN b - call.amount ELSE map[o]]
               t == call.target_account.owner
               tb == IF t \in DOMAIN debited THEN debited[t] ELSE 0
               credited == [o \in DOMAIN debited \cup {t} |->
                              IF o = t
                              THEN (IF tb + call.amount > MaxAmount
                                    THEN MaxAmount ELSE tb + call.amount)
                              ELSE debited[o]]
           IN  /\ (last'.result = "Ok")
                     <=> (call.signer = call.owner /\ call.amount <= b)
               /\ last'.result = "Ok"
                     => IF call.target_account.chain_id = call.chain
                        THEN accounts'[call.chain] = credited /\ pending' = pending
                        ELSE /\ accounts'[call.chain] = debited
                             /\ pending' = pending (+) SetToBag(
                                  {CreditFor(call.target_account, call.amount)})
               /\ last'.result # "Ok"
                     => accounts' = accounts /\ pending' = pending ]_vars

\* a Transfer of the owner's whole positive balance succeeded
C15_Witness ==
    /\ last.kind = "execute_operation"
    /\ last.result = "Ok"
    /\ last.funded
    /\ \E c \in ChainId, o \in Owner :
          /\ o \in DOMAIN accounts[c]
          /\ accounts[c][o] = 0
          /\ (InFlight > 0 \/ \E p \in Owner \ {o} : Bal(c, p) > 0)

\* ------------------------------------------------------------------------
\* C16. Chain isolation: a step changes the ledger of a chain only if it is
\* that chain's own execution of the initialization, of an operation or of a
\* delivered message; the ledger of every other chain is unchanged by the
\* step.
\* ------------------------------------------------------------------------
C16_ChainIsolation ==
    [][ \A c \in ChainId :
          accounts'[c] # accounts[c]
             => /\ call.kind \in {"initialize", "execute_operation",
                                  "execute_message"}
                /\ call.chain = c ]_vars

\* a remote Transfer has reduced the creator chain's ledger and emitted its
\* Credit while the ledger of the target chain is still empty
C16_Witness ==
    /\ last.kind = "execute_operation"
    /\ last.result = "Ok"
    /\ last.messages = 1
    /\ LedgerTotal(accounts[CreatorChain]) < Supply
    /\ \E m \in BagToSet(pending) :
          m.destination # CreatorChain /\ accounts[m.destination] = EmptyMap

\* ------------------------------------------------------------------------
\* C17. No deduplication, as claimed: once the transport has delivered the
\* Credit of the cross-chain transfer twice, the target owner has been
\* credited twice amount and the sum of all balances plus the in-flight
\* amounts exceeds the initial supply.
\* ------------------------------------------------------------------------
C17_DoubleCreditAsClaimed ==
    scenario.phase = "redelivered"
       => /\ Bal(scenario.target_account.chain_id, scenario.target_account.owner)
                = 2 * scenario.amount
          /\ AllBalances + InFlight > Supply

\* C17. No deduplication: once the transport has delivered the Credit of the
\* cross-chain transfer twice, the target owner holds min(MAX, 2 * amount)
\* and the sender S - amount, and the sum of all balances plus the in-flight
\* amounts exceeds the initial supply, by amount, whenever amount > 0 and
\* 2 * amount <= MAX.
C17_DoubleCredit ==
    scenario.phase = "redelivered"
       => LET a == scenario.amount
              twice == IF 2 * a > MaxAmount THEN MaxAmount ELSE 2 * a
          IN  /\ last.kind = "execute_message"
              /\ last.result = "Ok"
              /\ Bal(scenario.target_account.chain_id,
                     scenario.target_account.owner) = twice
              /\ Bal(creation.chain, creation.signer) = Supply - a
              /\ AllBalances + InFlight = Supply - a + twice
              /\ (a > 0 /\ 2 * a <= MaxAmount)
                    => AllBalances + InFlight = Supply + a

\* the Credit was handled twice and the ledgers hold more than the supply
C17_Witness ==
    /\ scenario.phase = "redelivered"
    /\ scenario.amount > 0
    /\ AllBalances + InFlight > Supply

\* ------------------------------------------------------------------------
\* C18. No clamping is reachable: after a single initialization with supply
\* S <= MAX and with exactly-once delivery, every credit about to be applied
\* satisfies balance + amount <= MAX, be it the credit of a Credit message in
\* the transport or being handled, or the local credit of a Transfer that
\* passes authentication and debit (taken on the debited ledger).
\* ------------------------------------------------------------------------
C18_NoClamping ==
    /\ \A m \in BagToSet(pending) :
          Bal(m.destination, m.message.owner) + m.message.amount <= MaxAmount
    /\ call.kind = "execute_message"
          => Bal(call.chain, call.owner) + call.amount <= MaxAmount
    /\ ( /\ call.kind = "execute_operation"
         /\ call.signer = call.owner
         /\ call.amount <= Bal(call.chain, call.owner)
         /\ call.target_account.chain_id = call.chain )
          => (IF call.target_account.owner = call.owner
              THEN Bal(call.chain, call.owner) - call.amount
              ELSE Bal(call.chain, call.target_account.owner))
                 + call.amount <= MaxAmount

\* a Credit has just raised a positive balance on another chain to MAX
C18_Witness ==
    /\ Supply = MaxAmount
    /\ calls = MaxCalls
    /\ last.kind = "execute_message"
    /\ last.result = "Ok"
    /\ \E c \in ChainId \ {CreatorChain}, o \in Owner : Bal(c, o) = MaxAmount

\* ------------------------------------------------------------------------
\* C19. Delivery order does not matter: for any two Credit messages pending
\* for the same chain, handling one and then the other yields the same
\* ledger on that chain as handling them in the opposite order.
\* ------------------------------------------------------------------------
C19_DeliveryOrder ==
    \A m1, m2 \in BagToSet(pending) :
       ( /\ m1.destination = m2.destination
         /\ (m1 # m2 \/ pending[m1] >= 2) )
          => LET map == accounts[m1.destination]
                 r1 == execute_message(map, m1.message)
                 r12 == execute_message(r1.accounts, m2.message)
                 r2 == execute_message(map, m2.message)
                 r21 == execute_message(r2.accounts, m1.message)
             IN  /\ r12.result = "Ok" /\ r21.result = "Ok"
                 /\ r12.accounts = r21.accounts

\* two Credits of different amounts for the same owner on the same chain are
\* pending
C19_Witness ==
    \E m1, m2 \in BagToSet(pending) :
       /\ m1.destination = m2.destination
       /\ m1.message.owner = m2.message.owner
       /\ m1.message.amount # m2.message.amount

\* ------------------------------------------------------------------------
\* C20. Self-transfer: a correctly authenticated Transfer whose
\* target_account is the same owner on the executing chain succeeds exactly
\* when amount <= balance(owner), and then leaves every balance on every
\* chain unchanged and emits no message.
\* ------------------------------------------------------------------------
C20_SelfTransfer ==
    [][ ( /\ call.kind = "execute_operation"
          /\ call.signer = call.owner
          /\ call.target_account =
                [chain_id |-> call.chain, owner |-> call.owner] )
        => LET b == IF call.owner \in DOMAIN accounts[call.chain]
                    THEN accounts[call.chain][call.owner] ELSE 0
           IN  /\ (last'.result = "Ok") <=> (call.amount <= b)
               /\ last'.result # "Ok" => last'.result = "InsufficientBalance"
               /\ \A c \in ChainId, o \in Owner :
                     (IF o \in DOMAIN accounts'[c] THEN accounts'[c][o] ELSE 0)
                       = (IF o \in DOMAIN accounts[c] THEN accounts[c][o] ELSE 0)
               /\ last'.messages = 0
               /\ pending' = pending ]_vars

\* a self-transfer succeeded while the whole positive supply sits on the
\* creator's account
C20_Witness ==
    /\ last.kind = "execute_operation"
    /\ last.to_self
    /\ last.result = "Ok"
    /\ Supply > 0
    /\ Bal(creation.chain, creation.signer) = Supply

====
